---- MODULE Spec2Model ----
(***************************************************************************)
(* Event-driven message processing pipeline of the Compound Assistant      *)
(* backend: a polling loop takes MessagePaid events from a contract event  *)
(* filter, each event is handled (content read, agent stream,              *)
(* markMessageProcessed transaction, frames to the WebSocket clients).     *)
(*                                                                         *)
(* Two wirings of the pipeline exist in the sources and both are modelled: *)
(*   path = "handler": blockchain/event_listener.py EventListener with     *)
(*                     event_handlers/message_handler.py                   *)
(*   path = "server" : server.py listen_for_events /                       *)
(*                     handle_message_paid_event / mark_message_processed  *)
(* Steps of a handler are split at the points where the coroutine can be   *)
(* suspended (the awaited WebSocket sends and the loop's sleep).           *)
(*                                                                         *)
(* Spec is the event pipeline. FairSpec is the pipeline of one polling    *)
(* loop under a fair event loop, when every call returns or raises.        *)
(* ServerSpec is the server process around it: the start-up (module        *)
(* import, lifespan, the connection test script), the Web3Client and the   *)
(* /ws/chat endpoint.                                                      *)
(***************************************************************************)
EXTENDS Integers, Sequences, FiniteSets, TLC

\* ---------------------------------------------------------------- bounds
MaxIds == 1
MaxEvents == 2
MaxChunks == 1
MaxSockets == 2

Ids == 1..MaxIds
Sockets == 1..MaxSockets
\* the polling loop of a first start_listening() call and the loop of a
\* call made after stop_listening() while the first has not yet returned
Loops == {1, 2}
\* the handler objects a caller may pass to add_event_handler()
Handlers == {1, 2}
\* the model is explored in six corners: a run of events with no client,
\* one event with all the clients, one event with streamed chunks and one
\* client, a batch of two events with one client, one event with one
\* client and a restarted listener, and a listener created without a
\* handler that gets its handlers while it runs (regs calls of
\* add_event_handler)
Corners == {[events |-> MaxEvents, sockets |-> 0, chunks |-> 0, loops |-> 1, regs |-> 0],
            [events |-> 1, sockets |-> MaxSockets, chunks |-> 0, loops |-> 1, regs |-> 0],
            [events |-> 1, sockets |-> 1, chunks |-> MaxChunks, loops |-> 1, regs |-> 0],
            [events |-> 2, sockets |-> 1, chunks |-> 0, loops |-> 1, regs |-> 0],
            [events |-> 1, sockets |-> 1, chunks |-> 0, loops |-> 2, regs |-> 0],
            [events |-> 2, sockets |-> 0, chunks |-> 0, loops |-> 1, regs |-> 2]}

VARIABLES
    path,               \* which wiring of the pipeline is deployed
    private_key,        \* os.getenv("PRIVATE_KEY") is set
    processedMessages,  \* contract: processedMessages[id]
    txCount,            \* chain: get_transaction_count(agent) at "latest"
    pending,            \* chain: index in txLog of the agent's pending tx, 0 if none
    new_entries,        \* event filter of every loop: entries not yet returned by get_new_entries()
    emitted,            \* number of MessagePaid events emitted so far
    is_listening,       \* EventListener.is_listening
    loop_pc,            \* position of every polling loop
    jobs,               \* one record per event returned by the filter
    active_connections, \* ConnectionManager.active_connections
    sock,               \* every WebSocket object: new, open, stalled, dropped (a send to it failed) or closed
    pub,                \* the frame being published, or the last one published
    txLog,              \* every markMessageProcessed transaction built, in order
    budget,             \* events, sockets, chunks, loops and registrations the environment may produce
    event_handlers,     \* EventListener._event_handlers: the handlers registered for "MessagePaid"
    boot,               \* environment and progress of the process start-up
    chat                \* /ws/chat: position of the endpoint coroutine of every socket

vars == <<path, private_key, processedMessages, txCount, pending, new_entries,
          emitted, is_listening, loop_pc, jobs, active_connections, sock,
          pub, txLog, budget, event_handlers, boot, chat>>

chainVars == <<processedMessages, txCount, pending, txLog>>
connVars == <<active_connections, sock, pub>>
loopVars == <<is_listening, loop_pc>>
confVars == <<path, private_key, budget, event_handlers, boot, chat>>

\* ---------------------------------------------------------------- helpers
Remove(s, x) == SelectSeq(s, LAMBDA y : y # x)

RECURSIVE RemoveAll(_, _)
RemoveAll(s, xs) ==
    IF xs = {} THEN s
    ELSE LET x == CHOOSE y \in xs : TRUE IN RemoveAll(Remove(s, x), xs \ {x})

Range(s) == {s[i] : i \in 1..Len(s)}

\* frames sent for one chunk of agent.stream()
ChunkKinds == {"calls", "text", "both", "none", "tools"}

ChunkFramesTextTwice(k) ==
    CASE k = "calls" -> <<"tool_call">>
      [] k = "text"  -> <<"agent", "agent">>
      [] k = "both"  -> <<"tool_call", "agent">>
      [] k = "none"  -> <<>>
      [] k = "tools" -> <<"tool">>

ChunkFrames(k) ==
    CASE k = "calls" -> <<"tool_call">>
      [] k = "text"  -> <<"agent">>
      [] k = "both"  -> <<"tool_call", "agent">>
      [] k = "none"  -> <<>>
      [] k = "tools" -> <<"tool">>

NewJob(id, dup, L) ==
    [id |-> id, loop |-> L, pc |-> "received", ran |-> {}, content |-> "none", agentInvoked |-> FALSE,
     chunks |-> 0, success |-> FALSE, error |-> "", ackAttempts |-> 0,
     ackOutcome |-> "none", processed |-> FALSE, resp |-> <<>>,
     bq |-> <<>>, bi |-> 0, bt |-> 0, bfailed |-> {}, sent |-> <<>>,
     dupActive |-> dup, flagAtReceipt |-> processedMessages[id],
     agentAfterAck |-> FALSE, kinds |-> <<>>]

\* why an event was left without a handler: decoding it raised, or no
\* handler was registered
DropErrors == {"decode", "no_handler"}

\* what is kept of a job once the loop has gone on to a later event: the
\* handler's locals are gone; the id, the fact that it returned and the
\* logged reason why it was left without a handler remain
Archived(job) ==
    [id |-> job.id, loop |-> job.loop, pc |-> "done", ran |-> {}, content |-> "none",
     agentInvoked |-> FALSE, chunks |-> 0, success |-> FALSE,
     error |-> IF job.error \in DropErrors THEN job.error ELSE "", ackAttempts |-> 0,
     ackOutcome |-> "none", processed |-> FALSE, resp |-> <<>>,
     bq |-> <<>>, bi |-> 0, bt |-> 0, bfailed |-> {}, sent |-> <<>>,
     dupActive |-> FALSE, flagAtReceipt |-> FALSE, agentAfterAck |-> FALSE,
     kinds |-> <<>>]

\* record of one publish: the table when it began (snap), the sockets that
\* received the frame (got), the sockets whose send failed (failed), whether
\* the transport changed the table meanwhile (mutated), the table at its end
NewFrameNoId(j, t) ==
    [job |-> j, type |-> t, id |-> 0, snap |-> active_connections,
     got |-> {}, failed |-> {}, mutated |-> FALSE, done |-> FALSE, after |-> <<>>,
     success |-> jobs[j].success, marked |-> jobs[j].processed,
     error |-> jobs[j].error]

NewFrame(j, t) ==
    [job |-> j, type |-> t, id |-> jobs[j].id, snap |-> active_connections,
     got |-> {}, failed |-> {}, mutated |-> FALSE, done |-> FALSE, after |-> <<>>,
     success |-> jobs[j].success, marked |-> jobs[j].processed,
     error |-> jobs[j].error]

\* `error=str(e)`: the text of the exception the agent stream raised is a
\* message or, for an exception raised without arguments (TimeoutError(),
\* AssertionError()), the empty string; the job keeps the exception, its
\* text is read where the completion frame is built
ExceptionTexts(err) == IF err = "agent" THEN {"agent", ""} ELSE {err}

\* `if error: notification["error"] = error`
HasErrorField(f) == f.error # ""

NoPub ==
    [job |-> 0, type |-> "", id |-> 0, snap |-> <<>>,
     got |-> {}, failed |-> {}, mutated |-> FALSE, done |-> TRUE, after |-> <<>>,
     success |-> FALSE, marked |-> FALSE, error |-> ""]

Publishing(j) == jobs[j].bq # <<>> \/ jobs[j].bt # 0

\* the start-up is not part of the run (the pipeline is already wired)
NoBoot ==
    [scenario |-> "none", key |-> "valid", address |-> "valid", network |-> "known",
     rpc |-> "wss", pc |-> "serving", opened |-> 0, client |-> "none",
     agent |-> "created", listener |-> "started", error |-> "",
     endpoint |-> "up", call |-> "", callEndpoint |-> "", memory |-> {}]

\* the text frames a client can send on /ws/chat: text that json.loads and
\* data.get() accept or not (json), the message, the signature (none, the
\* address's signature of the message, another one) and the address
Frames ==
    [json : {TRUE}, message : {"", "text"}, signature : {"", "good", "bad"},
     address : {"", "addr"}]
    \cup {[json |-> FALSE, message |-> "", signature |-> "", address |-> ""]}

NoFrame == [json |-> TRUE, message |-> "", signature |-> "", address |-> ""]

\* an endpoint coroutine that waits for a frame. While a frame is handled:
\* the frame (last), whether the agent was invoked for it (agentRan),
\* whether a tool of that run sent a transaction (chainWrite), the clients
\* whose messages the agent had in its conversation state (deps), the
\* frames still to be sent back (replies)
NoChat ==
    [pc |-> "recv", last |-> NoFrame, replies |-> <<>>, agentRan |-> FALSE,
     chainWrite |-> FALSE, deps |-> {}]

\* loop L has been started and has not returned
Alive(L) == loop_pc[L] \notin {"idle", "exited", "failed"}

\* the coroutine of loop L is suspended: in asyncio.sleep() or in the
\* awaited send of the handler it is waiting for
Suspended(L) ==
    \/ ~Alive(L)
    \/ loop_pc[L] = "sleep"
    \/ \E j \in 1..Len(jobs) : jobs[j].loop = L /\ jobs[j].bt # 0

\* the event loop is at a point where other coroutines can run
AtAwait == \A L \in Loops : Suspended(L)

\* the coroutine of loop L is the one that runs or is resumed
Runs(L) == \A M \in Loops \ {L} : Suspended(M)

\* ---------------------------------------------------------------- initial state
Init ==
    /\ path \in {"handler", "server"}
    /\ private_key \in BOOLEAN
    /\ (path = "server" => private_key)
    /\ budget \in Corners
    /\ event_handlers = IF path = "handler" /\ budget.regs = 0 THEN {1} ELSE {}
    /\ processedMessages = [id \in Ids |-> FALSE]
    /\ txCount = 0
    /\ pending = 0
    /\ new_entries = [L \in Loops |-> <<>>]
    /\ emitted = 0
    /\ is_listening = FALSE
    /\ loop_pc = [L \in Loops |-> "idle"]
    /\ jobs = <<>>
    /\ active_connections = <<>>
    /\ sock = [s \in Sockets |-> "new"]
    /\ pub = NoPub
    /\ txLog = <<>>
    /\ boot = NoBoot
    /\ chat = [s \in Sockets |-> NoChat]

\* ---------------------------------------------------------------- chain
\* a MessagePaid log is emitted by the contract and enters every filter.
\* A log emitted at any other moment is returned by the same next call of
\* get_new_entries(), so emission is placed during a loop's sleep.
EmitEvent(id) ==
    /\ emitted < budget.events
    /\ \E L \in Loops : loop_pc[L] = "sleep"
    /\ emitted' = emitted + 1
    /\ new_entries' = [L \in Loops |->
                         IF Alive(L) THEN Append(new_entries[L], id) ELSE new_entries[L]]
    /\ UNCHANGED <<chainVars, connVars, loopVars, confVars, jobs>>

\* the pending transaction left behind by a receipt timeout is mined later;
\* the process can observe it only at its next nonce read, so mining is
\* placed during the loop's sleep or right before an acknowledgement
MinePending ==
    /\ pending # 0
    /\ \/ \E L \in Loops : loop_pc[L] = "sleep"
       \/ \E j \in 1..Len(jobs) : jobs[j].pc = "ack" /\ ~Publishing(j)
    /\ \E st \in {"confirmed", "reverted"} :
        /\ txLog' = [txLog EXCEPT ![pending].status = st]
        /\ processedMessages' =
              IF st = "confirmed"
              THEN [processedMessages EXCEPT ![txLog[pending].id] = TRUE]
              ELSE processedMessages
    /\ txCount' = txCount + 1
    /\ pending' = 0
    /\ UNCHANGED <<connVars, loopVars, confVars, jobs, new_entries, emitted>>

\* ---------------------------------------------------------------- polling loop
\* start_listening() up to the creation of the event filter; the filter
\* starts at "latest", so entries of an earlier filter are not carried over.
\* The call is made by another coroutine; the only guard of the handler
\* wiring is the is_listening flag. Without the filter the call returns.
StartListening(L) ==
    /\ AtAwait
    /\ ~Alive(L)
    /\ L <= budget.loops
    /\ \A M \in Loops : M < L => Alive(M)
    /\ (L > 1 => path = "handler")
    /\ (path = "handler" => ~is_listening)
    /\ new_entries' = [new_entries EXCEPT ![L] = <<>>]
    /\ \E ok \in BOOLEAN :
        IF ok
        THEN /\ is_listening' = (path = "handler")
             /\ loop_pc' = [loop_pc EXCEPT ![L] = "poll"]
        ELSE /\ is_listening' = FALSE
             /\ loop_pc' = [loop_pc EXCEPT ![L] = "failed"]
    /\ UNCHANGED <<chainVars, connVars, confVars, jobs, emitted>>

\* stop_listening(): called by another coroutine, only clears the flag
StopListening ==
    /\ AtAwait
    /\ path = "handler"
    /\ is_listening
    /\ is_listening' = FALSE
    /\ UNCHANGED <<chainVars, connVars, confVars, jobs, emitted, new_entries, loop_pc>>

\* flags of the events of one batch: is an earlier event with the same id
\* not yet handled to the end when this one is received
RECURSIVE BatchJobs(_, _, _)
BatchJobs(batch, earlier, L) ==
    IF batch = <<>> THEN <<>>
    ELSE <<NewJob(Head(batch),
                  \E k \in 1..Len(earlier) :
                      earlier[k].id = Head(batch) /\ earlier[k].pc # "done",
                  L)>>
         \o BatchJobs(Tail(batch),
                      Append(earlier, NewJob(Head(batch), FALSE, L)), L)

\* handler: `while self.is_listening:`; server: `while True:`
WhileConditionAlways == TRUE

WhileCondition == path = "server" \/ is_listening

\* while-condition and event_filter.get_new_entries()
Poll(L) ==
    /\ Runs(L)
    /\ loop_pc[L] = "poll"
    /\ IF ~WhileCondition
       THEN /\ loop_pc' = [loop_pc EXCEPT ![L] = "exited"]
            /\ UNCHANGED <<jobs, new_entries>>
       ELSE \E ok \in BOOLEAN :
            IF ok
            THEN /\ jobs' = jobs \o BatchJobs(new_entries[L], jobs, L)
                 /\ new_entries' = [new_entries EXCEPT ![L] = <<>>]
                 /\ loop_pc' = [loop_pc EXCEPT ![L] = "dispatch"]
            ELSE /\ loop_pc' = [loop_pc EXCEPT ![L] = "sleep"]
                 /\ UNCHANGED <<jobs, new_entries>>
    /\ UNCHANGED <<chainVars, connVars, confVars, is_listening, emitted>>

\* `await self._handle_message_paid_event(event)`: the loop goes on only
\* when the handler of job j has returned
AwaitReturnedNever(j) == FALSE

AwaitReturned(j) == jobs[j].pc = "done"

\* the events of loop L's batch not yet handed to the handler
Received(L) == {j \in 1..Len(jobs) : jobs[j].loop = L /\ jobs[j].pc = "received"}

\* the events loop L has handed to the handler before job j
Handed(L, j) == {k \in 1..(j - 1) : jobs[k].loop = L}

\* add_event_handler(): `self._event_handlers[event_name] = handler`
RegisterAlso(hs, h) == hs \cup {h}

Register(hs, h) == {h}

\* add_event_handler("MessagePaid", h), called by another coroutine
add_event_handler(h) ==
    /\ AtAwait
    /\ path = "handler"
    /\ budget.regs > 0
    /\ event_handlers' = Register(event_handlers, h)
    /\ budget' = [budget EXCEPT !.regs = @ - 1]
    /\ UNCHANGED <<chainVars, connVars, loopVars, jobs, emitted, new_entries,
                   path, private_key, boot, chat>>

\* the handlers awaited for one event: EventListener looks the handler up
\* in _event_handlers, server.listen_for_events calls its handler directly
Called == IF path = "handler" THEN event_handlers ELSE {1}

\* where the loop goes on after an event whose decoding or handling raised:
\* the exception is caught and logged per event, the for loop goes on
AfterEventErrorRaised == "failed"

AfterEventError == "dispatch"

\* the job of an event that was left without a handler
Dropped(job, why) == [job EXCEPT !.pc = "done", !.error = why]

\* for event in new_events: await handler(event); then sleep.
\* Decoding the event's arguments can raise (KeyError, AttributeError).
\* The record of the last publish goes with the handler that made it; at
\* the end of the batch the record of a publish to an empty table is kept,
\* for the sockets that connect during the sleep.
Dispatch(L) ==
    /\ Runs(L)
    /\ loop_pc[L] = "dispatch"
    /\ IF Received(L) # {}
       THEN LET j == CHOOSE k \in Received(L) : \A m \in Received(L) : k <= m IN
            /\ \A k \in Handed(L, j) : AwaitReturned(k)
            /\ \E decoded \in BOOLEAN :
                /\ jobs' = [m \in 1..Len(jobs) |->
                              IF m = j
                              THEN IF ~decoded THEN Dropped(jobs[m], "decode")
                                   ELSE IF Called = {} THEN Dropped(jobs[m], "no_handler")
                                   ELSE [jobs[m] EXCEPT !.pc = "fetch", !.ran = Called]
                              ELSE IF jobs[m].pc = "done" THEN Archived(jobs[m])
                              ELSE jobs[m]]
                /\ loop_pc' = [loop_pc EXCEPT ![L] = IF decoded THEN @ ELSE AfterEventError]
            /\ pub' = IF pub.done THEN NoPub ELSE pub
       ELSE /\ \A k \in Handed(L, Len(jobs) + 1) : AwaitReturned(k)
            /\ loop_pc' = [loop_pc EXCEPT ![L] = "sleep"]
            /\ jobs' = [m \in 1..Len(jobs) |->
                          IF jobs[m].pc = "done" THEN Archived(jobs[m]) ELSE jobs[m]]
            /\ pub' = IF pub.done /\ pub.snap # <<>> THEN NoPub ELSE pub
    /\ UNCHANGED <<chainVars, active_connections, sock, confVars, is_listening,
                   emitted, new_entries>>

\* asyncio.sleep() is over
Wake(L) ==
    /\ Runs(L)
    /\ loop_pc[L] = "sleep"
    /\ loop_pc' = [loop_pc EXCEPT ![L] = "poll"]
    /\ UNCHANGED <<chainVars, connVars, confVars, is_listening, emitted, new_entries, jobs>>

\* ---------------------------------------------------------------- transport
MarkMutated == IF pub.done THEN pub ELSE [pub EXCEPT !.mutated = TRUE]

\* frames a socket is handed when it is registered: connect() only appends
ConnectReplay(s) == pub.job # 0

ConnectBacklog(s) == FALSE

\* ConnectionManager.connect; the WebSocket objects are numbered in the
\* order in which they connect
Connect(s) ==
    /\ AtAwait
    /\ s <= budget.sockets
    /\ sock[s] = "new"
    /\ \A t \in Sockets : t < s => sock[t] # "new"
    /\ sock' = [sock EXCEPT ![s] = "open"]
    /\ active_connections' = Append(active_connections, s)
    /\ pub' = IF ConnectBacklog(s) THEN [MarkMutated EXCEPT !.got = @ \cup {s}]
              ELSE MarkMutated
    /\ UNCHANGED <<chainVars, loopVars, confVars, jobs, emitted, new_entries>>

\* ConnectionManager.disconnect
disconnect(conns, s) == IF s \in Range(conns) THEN Remove(conns, s) ELSE conns

\* the client goes away: WebSocketDisconnect in websocket_endpoint, also
\* for a socket the server has dropped already after a failed send
ClientDisconnect(s) ==
    /\ AtAwait
    /\ sock[s] \in {"open", "stalled", "dropped"}
    /\ sock' = [sock EXCEPT ![s] = "closed"]
    /\ active_connections' = disconnect(active_connections, s)
    /\ pub' = MarkMutated
    /\ UNCHANGED <<chainVars, loopVars, confVars, jobs, emitted, new_entries>>

\* the client stops reading while a send to it is awaited: send_text()
\* neither returns nor raises until the client goes away
ClientStall(s) ==
    /\ sock[s] = "open"
    /\ \E j \in 1..Len(jobs) : jobs[j].bt = s
    /\ sock' = [sock EXCEPT ![s] = "stalled"]
    /\ UNCHANGED <<chainVars, loopVars, confVars, jobs, emitted, new_entries,
                   active_connections, pub>>

\* ---------------------------------------------------------------- acknowledgement
\* what one call of mark_message_processed can end in
AckOutcomes == {"build_error", "send_error", "confirmed", "reverted", "timeout"}

\* 'nonce': self.w3.eth.get_transaction_count(from_address)
Nonce == txCount

\* `return True` only under `receipt.status == 1`
ProcessedIgnoringStatus(o) == o \in {"confirmed", "reverted"}

Processed(o) == o = "confirmed"

ConfirmedFor(id) == \E m \in 1..Len(txLog) : txLog[m].id = id /\ txLog[m].status = "confirmed"

NewTx(j, st) ==
    [job |-> j, id |-> jobs[j].id, nonce |-> Nonce, status |-> st,
     afterConfirmed |-> ConfirmedFor(jobs[j].id)]

\* a transaction accepted with the nonce of the pending one takes its place
Superseded == IF pending = 0 THEN txLog ELSE [txLog EXCEPT ![pending].status = "replaced"]

\* build, sign, send, wait for the receipt: effect on the chain of outcome o
ChainAck(j, o) ==
    CASE o = "build_error" ->
            UNCHANGED chainVars
      [] o = "send_error" ->
            /\ txLog' = Append(txLog, NewTx(j, "send_error"))
            /\ UNCHANGED <<processedMessages, txCount, pending>>
      [] o = "confirmed" ->
            /\ txLog' = Append(Superseded, NewTx(j, "confirmed"))
            /\ processedMessages' = [processedMessages EXCEPT ![jobs[j].id] = TRUE]
            /\ txCount' = txCount + 1
            /\ pending' = 0
      [] o = "reverted" ->
            /\ txLog' = Append(Superseded, NewTx(j, "reverted"))
            /\ txCount' = txCount + 1
            /\ pending' = 0
            /\ UNCHANGED processedMessages
      [] o = "timeout" ->
            /\ txLog' = Append(Superseded, NewTx(j, "pending"))
            /\ pending' = Len(txLog) + 1
            /\ UNCHANGED <<processedMessages, txCount>>

\* ---------------------------------------------------------------- handling one event
\* handler: `return await self._mark_processed_and_notify(..., error=...)`
\* server : process_message_with_agent returns [] and the caller goes on
AfterContentMissingToAgent == "agent"

AfterContentMissing == "ack"

\* the except branch around agent.stream()
AfterAgentRaiseRefetch == "fetch"

AfterAgentRaise == "ack"

\* handler: get_message_content(); server: event.args.messageURI
FetchContent(j) ==
    /\ jobs[j].pc = "fetch"
    /\ \E r \in {"found", "empty", "error"} :
        /\ (path = "server" => r # "error")
        /\ IF r = "found"
           THEN jobs' = [jobs EXCEPT ![j].content = "found", ![j].pc = "agent",
                            ![j].bq = IF path = "handler" THEN <<"message_received">> ELSE <<>>]
           ELSE jobs' = [jobs EXCEPT ![j].content = "missing",
                            ![j].error = IF path = "handler" THEN "Message content not found" ELSE "",
                            ![j].pc = AfterContentMissing]
    /\ UNCHANGED <<chainVars, connVars, loopVars, confVars, emitted, new_entries>>

\* one step of `for chunk in agent.stream(...)`: a chunk, the end, or an exception
AgentStep(j) ==
    /\ jobs[j].pc = "agent"
    /\ ~Publishing(j)
    /\ LET inv == [jobs EXCEPT ![j].agentInvoked = TRUE,
                       ![j].agentAfterAck = @ \/ (~jobs[j].agentInvoked /\ ConfirmedFor(jobs[j].id))]
       IN \/ \E k \in ChunkKinds :
               /\ jobs[j].chunks < budget.chunks
               /\ jobs' = IF path = "handler"
                          THEN [inv EXCEPT ![j].chunks = @ + 1, ![j].kinds = Append(@, k),
                                           ![j].bq = ChunkFrames(k)]
                          ELSE [inv EXCEPT ![j].chunks = @ + 1, ![j].kinds = Append(@, k),
                                           ![j].resp = @ \o ChunkFrames(k)]
          \/ jobs' = [inv EXCEPT ![j].success = TRUE, ![j].pc = "ack"]
          \/ jobs' = IF path = "handler"
                     THEN [inv EXCEPT ![j].error = "agent", ![j].pc = AfterAgentRaise]
                     ELSE [inv EXCEPT ![j].error = "agent", ![j].pc = AfterAgentRaise,
                                      ![j].resp = @ \o <<"error">>]
    /\ UNCHANGED <<chainVars, connVars, loopVars, confVars, emitted, new_entries>>

\* handler: _mark_processed_and_notify; server: mark_message_processed and
\* the hand-over of the collected responses to manager.broadcast
MarkProcessed(j) ==
    /\ jobs[j].pc = "ack"
    /\ ~Publishing(j)
    /\ IF path = "handler" /\ ~private_key
       THEN /\ jobs' = [jobs EXCEPT ![j].pc = "done", ![j].ackOutcome = "no_key"]
            /\ UNCHANGED chainVars
       ELSE \E o \in AckOutcomes :
            /\ ChainAck(j, o)
            /\ jobs' =
                 IF path = "handler"
                 THEN [jobs EXCEPT ![j].ackAttempts = @ + 1, ![j].ackOutcome = o,
                                   ![j].processed = Processed(o), ![j].pc = "notify",
                                   ![j].bq = <<"processing_complete">>]
                 ELSE IF o \in {"confirmed", "reverted"}
                 THEN [jobs EXCEPT ![j].ackAttempts = @ + 1, ![j].ackOutcome = o,
                                   ![j].processed = Processed(o), ![j].pc = "notify",
                                   ![j].bq = jobs[j].resp]
                 ELSE [jobs EXCEPT ![j].ackAttempts = @ + 1, ![j].ackOutcome = o,
                                   ![j].pc = "done"]
    /\ UNCHANGED <<connVars, loopVars, confVars, emitted, new_entries>>

\* the handler returns
Finish(j) ==
    /\ jobs[j].pc = "notify"
    /\ ~Publishing(j)
    /\ jobs' = [jobs EXCEPT ![j].pc = "done"]
    /\ UNCHANGED <<chainVars, connVars, loopVars, confVars, emitted, new_entries>>

\* ---------------------------------------------------------------- publishing
\* handler: _broadcast_to_websockets; server: ConnectionManager.broadcast.
\* Start of the iteration over active_connections for the next frame.
BeginPublish(j) ==
    /\ jobs[j].bq # <<>>
    /\ jobs[j].bt = 0
    /\ \E e \in ExceptionTexts(jobs[j].error) :
       LET f == [NewFrame(j, Head(jobs[j].bq)) EXCEPT !.error = e] IN
       IF active_connections = <<>>
       THEN /\ pub' = [f EXCEPT !.done = TRUE]
            /\ jobs' = [jobs EXCEPT ![j].bq = Tail(@), ![j].sent = Append(@, f.type)]
       ELSE /\ pub' = f
            /\ jobs' = [jobs EXCEPT ![j].bi = 1, ![j].bt = active_connections[1],
                                    ![j].bfailed = {}, ![j].sent = Append(@, f.type)]
    /\ UNCHANGED <<chainVars, loopVars, confVars, emitted, new_entries,
                   active_connections, sock>>

AfterFailedSendKept(conns, s) == conns

\* the table after a failed send to s:
\* handler: send_message() disconnects at once, inside the iteration;
\* server : broadcast() collects the failures and removes them after it
AfterFailedSend(conns, s) == IF path = "handler" THEN disconnect(conns, s) ELSE conns

\* the handler after a send that raised: the exception is caught around
\* the send (send_message, broadcast), the handler does not see it
AfterSendErrorRaised(job) ==
    [job EXCEPT !.error = "send", !.pc = "done", !.bq = <<>>, !.bi = 0, !.bt = 0,
                !.bfailed = {}]

AfterSendError(job) == job

\* the transport of socket s after a send to it raised
SendFailed(s) == [sock EXCEPT ![s] = IF @ = "closed" THEN "closed" ELSE "dropped"]

\* the awaited send to jobs[j].bt returns or raises, and the iteration goes
\* on to the next index of the list
SendComplete(j) ==
    /\ jobs[j].bt # 0
    /\ sock[jobs[j].bt] # "stalled"
    /\ \E ok \in BOOLEAN :
        /\ (ok => sock[jobs[j].bt] = "open")
        /\ LET s == jobs[j].bt
               conns1 == IF ok THEN active_connections
                         ELSE AfterFailedSend(active_connections, s)
               failed1 == IF ok THEN jobs[j].bfailed ELSE jobs[j].bfailed \cup {s}
               ni == jobs[j].bi + 1
               more == ni <= Len(conns1)
               conns2 == IF ~more /\ path = "server" THEN RemoveAll(conns1, failed1)
                         ELSE conns1
           IN /\ active_connections' = conns2
              /\ sock' = IF ok THEN sock ELSE SendFailed(s)
              /\ pub' = IF pub.job # j \/ pub.done THEN pub
                         ELSE [pub EXCEPT !.got = IF ok THEN @ \cup {s} ELSE @,
                                          !.failed = failed1, !.done = ~more,
                                          !.after = IF more THEN @ ELSE conns2]
              /\ LET nj == IF more
                            THEN [jobs[j] EXCEPT !.bi = ni, !.bt = conns1[ni],
                                                 !.bfailed = failed1]
                            ELSE [jobs[j] EXCEPT !.bi = 0, !.bt = 0, !.bfailed = {},
                                                 !.bq = Tail(@)]
                 IN jobs' = [jobs EXCEPT ![j] = IF ok THEN nj ELSE AfterSendError(nj)]
    /\ UNCHANGED <<chainVars, loopVars, confVars, emitted, new_entries>>

\* ---------------------------------------------------------------- specification
JobStep ==
    \E j \in 1..Len(jobs) :
        /\ Runs(jobs[j].loop)
        /\ \/ FetchContent(j)
           \/ AgentStep(j)
           \/ MarkProcessed(j)
           \/ Finish(j)
           \/ BeginPublish(j)
           \/ SendComplete(j)

Next ==
    \/ \E id \in Ids : EmitEvent(id)
    \/ MinePending
    \/ \E L \in Loops : StartListening(L)
    \/ StopListening
    \/ \E L \in Loops : Poll(L)
    \/ \E L \in Loops : Dispatch(L)
    \/ \E h \in Handlers : add_event_handler(h)
    \/ \E L \in Loops : Wake(L)
    \/ \E s \in Sockets : Connect(s)
    \/ \E s \in Sockets : ClientDisconnect(s)
    \/ \E s \in Sockets : ClientStall(s)
    \/ JobStep

Spec == Init /\ [][Next]_vars

\* the pipeline when every call returns or raises (no client stalls) and
\* the event loop resumes every coroutine that is ready
FairNext ==
    \/ \E id \in Ids : EmitEvent(id)
    \/ MinePending
    \/ \E L \in Loops : StartListening(L)
    \/ StopListening
    \/ \E L \in Loops : Poll(L)
    \/ \E L \in Loops : Dispatch(L)
    \/ \E h \in Handlers : add_event_handler(h)
    \/ \E L \in Loops : Wake(L)
    \/ \E s \in Sockets : Connect(s)
    \/ \E s \in Sockets : ClientDisconnect(s)
    \/ JobStep

\* one polling loop per listener (with one loop a coroutine that is ready
\* stays ready until it is resumed) and at most one client
FairInit == Init /\ budget.loops = 1 /\ budget.sockets <= 1

FairSpec ==
    /\ FairInit
    /\ [][FairNext]_vars
    /\ WF_vars(JobStep)
    /\ \A L \in Loops : WF_vars(Poll(L)) /\ WF_vars(Dispatch(L)) /\ WF_vars(Wake(L))

\* ---------------------------------------------------------------- start-up
\* values of the environment the start-up reads
KeyValues == {"unset", "placeholder", "valid"}
AddressValues == {"unset", "zero", "valid"}
NetworkValues == {"known", "unknown"}
RpcValues == {"unset", "http", "wss"}

\* keyword parameters of create_agent
AgentKwargs == {"model_name"}

\* initialize_agentkit(): the asserts on PRIVATE_KEY and Account.from_key
InitializeAgentkitOk(b) == b.key = "valid"

\* fetch_onchain_prompt(): Web3Client(rpc_url) connects when the URL is set,
\* is a wss:// one and the endpoint answers
OnchainPromptOpens(b, reach) == b.rpc = "wss" /\ reach

\* create_agent(**kw): the boot record after the call
create_agent(b, kw, reach) ==
    IF ~(kw \subseteq AgentKwargs) THEN [b EXCEPT !.error = "TypeError"]
    ELSE IF ~InitializeAgentkitOk(b) THEN [b EXCEPT !.error = "AssertionError"]
    ELSE [b EXCEPT !.agent = "created",
                   !.opened = @ + (IF OnchainPromptOpens(b, reach) THEN 1 ELSE 0)]

otherVars == <<path, private_key, budget, event_handlers, chainVars, loopVars, new_entries, emitted, jobs>>

\* server.py is imported: `agent = create_agent()` at module level
ImportServer ==
    /\ boot.scenario = "server"
    /\ boot.pc = "import"
    /\ \E reach \in BOOLEAN :
        LET b == create_agent(boot, {}, reach) IN
        boot' = [b EXCEPT !.pc = IF b.error = "" THEN "lifespan" ELSE "fatal"]
    /\ UNCHANGED <<otherVars, connVars, chat>>

\* start_event_listener(): each missing value is logged and the function
\* returns; any exception is logged as well
ListenerDisabled(b, reach) ==
    IF b.key # "valid" \/ b.address # "valid" \/ b.network # "known" \/ ~reach
    THEN "disabled" ELSE "started"

\* lifespan(): await start_event_listener(), then the application serves
LifespanStartup ==
    /\ boot.scenario = "server"
    /\ boot.pc = "lifespan"
    /\ \E reach \in BOOLEAN :
        LET l == ListenerDisabled(boot, reach) IN
        boot' = [boot EXCEPT !.pc = "serving", !.listener = l,
                             !.opened = @ + (IF l = "started" THEN 1 ELSE 0)]
    /\ UNCHANGED <<otherVars, connVars, chat>>

\* BlockchainConfig.validate_config()
validate_config(b) == b.rpc # "unset" /\ b.key # "unset"

\* test_connection_fix.py: validate, Web3Client(...), create_agent(web3_client=...)
TestValidate ==
    /\ boot.scenario = "test"
    /\ boot.pc = "validate"
    /\ boot' = [boot EXCEPT !.pc = IF validate_config(boot) THEN "client" ELSE "test_failed"]
    /\ UNCHANGED <<otherVars, connVars, chat>>

\* Web3Client.__init__ / _connect
TestInitClient ==
    /\ boot.scenario = "test"
    /\ boot.pc = "client"
    /\ \E reach \in BOOLEAN :
        boot' = IF boot.rpc = "wss" /\ reach
                THEN [boot EXCEPT !.pc = "create_agent", !.client = "connected", !.opened = @ + 1]
                ELSE [boot EXCEPT !.pc = "test_failed", !.error = "connect"]
    /\ UNCHANGED <<otherVars, connVars, chat>>

TestCreateAgent ==
    /\ boot.scenario = "test"
    /\ boot.pc = "create_agent"
    /\ \E reach \in BOOLEAN :
        LET b == create_agent(boot, {"web3_client"}, reach) IN
        boot' = [b EXCEPT !.pc = IF b.error = "" THEN "test_passed" ELSE "test_failed"]
    /\ UNCHANGED <<otherVars, connVars, chat>>

\* ---------------------------------------------------------------- Web3Client
\* the socket of the provider is dropped; the endpoint itself may be
\* unreachable for a while
ConnectionLost ==
    /\ boot.client = "connected"
    /\ \E e \in {"up", "down"} :
        boot' = [boot EXCEPT !.client = "lost", !.endpoint = e]
    /\ UNCHANGED <<otherVars, connVars, chat>>

EndpointBack ==
    /\ boot.client = "lost"
    /\ boot.endpoint = "down"
    /\ boot' = [boot EXCEPT !.endpoint = "up"]
    /\ UNCHANGED <<otherVars, connVars, chat>>

\* self.w3.is_connected() on a provider whose socket was dropped: whether
\* the probe dials again is left to the provider class the installed web3
\* offers (WebSocketProvider or LegacyWebSocketProvider)
ProviderProbe(b, redial) ==
    b.client = "connected" \/ (redial /\ b.endpoint = "up")

\* Web3Client.get_web3(): returns self.w3 or raises RuntimeError; it never
\* calls _connect()
GetWeb3 ==
    /\ boot.client # "none"
    /\ \E redial \in BOOLEAN :
        boot' = IF ProviderProbe(boot, redial)
                THEN [boot EXCEPT !.client = "connected", !.call = "ok",
                                  !.callEndpoint = boot.endpoint]
                ELSE [boot EXCEPT !.call = "RuntimeError",
                                  !.callEndpoint = boot.endpoint]
    /\ UNCHANGED <<otherVars, connVars, chat>>

\* Web3Client.reconnect(): _connect() builds a new provider and raises when
\* the endpoint does not answer
Reconnect ==
    /\ boot.client # "none"
    /\ boot' = IF boot.endpoint = "up"
               THEN [boot EXCEPT !.client = "connected", !.call = "reconnected",
                                 !.callEndpoint = boot.endpoint]
               ELSE [boot EXCEPT !.client = "lost", !.call = "ConnectionError",
                                 !.callEndpoint = boot.endpoint]
    /\ UNCHANGED <<otherVars, connVars, chat>>

\* ---------------------------------------------------------------- /ws/chat
\* verify_signature(): the address recovered from the signature of the
\* message is the supplied address
verify_signatureAny(f) == f.signature # ""

verify_signature(f) == f.signature = "good"

\* `if signature and address:` and the verification
Accepted(f) == f.signature # "" /\ f.address # "" /\ verify_signature(f)

\* the chunk sequences one agent.stream() can yield
ChunkSeqs == {<<>>} \cup {<<k>> : k \in ChunkKinds}

\* websocket_endpoint: one received frame up to the first awaited send.
\* process_message_with_agent runs the agent with its tools to the end; a
\* tool that ran may have sent a transaction with the agent's wallet. The
\* agent runs on the one thread id THREAD_ID of the MemorySaver checkpoint,
\* which holds the messages of every run before. receive_text() on a socket
\* that was dropped, and a frame that cannot be read, raise into the
\* endpoint's `except Exception`.
ChatReceive(s) ==
    /\ boot.pc = "serving"
    /\ sock[s] \in {"open", "dropped"}
    /\ chat[s].pc = "recv"
    /\ \E f \in Frames :
        LET c == [NoChat EXCEPT !.last = f] IN
        /\ (sock[s] = "dropped" => ~f.json)
        /\ IF ~f.json
           THEN /\ chat' = [chat EXCEPT ![s] = [c EXCEPT !.pc = "fail", !.replies = <<"error">>]]
                /\ UNCHANGED boot
           ELSE IF f.message = ""
           THEN /\ chat' = [chat EXCEPT ![s] = c]
                /\ UNCHANGED boot
           ELSE IF ~Accepted(f)
           THEN /\ chat' = [chat EXCEPT ![s] = [c EXCEPT !.pc = "reply", !.replies = <<"error">>]]
                /\ UNCHANGED boot
           ELSE \E ks \in ChunkSeqs : \E raise \in BOOLEAN : \E w \in BOOLEAN :
                /\ (w => ks = <<"tools">>)
                /\ LET r == (IF ks = <<>> THEN <<>> ELSE ChunkFrames(ks[1]))
                            \o (IF raise THEN <<"error">> ELSE <<>>)
                   IN chat' = [chat EXCEPT ![s] =
                                [c EXCEPT !.agentRan = TRUE,
                                          !.chainWrite = w,
                                          !.deps = boot.memory \cup {s},
                                          !.replies = r,
                                          !.pc = IF r = <<>> THEN "recv" ELSE "reply"]]
                /\ boot' = [boot EXCEPT !.memory = @ \cup {s}]
    /\ UNCHANGED <<otherVars, connVars>>

\* `await manager.send_message(json.dumps(response), websocket)`: the frame
\* goes to the endpoint's own socket; a failed send disconnects it. After
\* the error frame of `except Exception` the endpoint disconnects the
\* socket (again) and returns, which closes the connection.
ChatSend(s) ==
    /\ boot.pc = "serving"
    /\ chat[s].pc \in {"reply", "fail"}
    /\ \E ok \in BOOLEAN :
        /\ (ok => sock[s] = "open")
        /\ LET conns1 == IF ok THEN active_connections
                         ELSE disconnect(active_connections, s)
               sock1 == IF ok THEN sock ELSE SendFailed(s)
           IN /\ active_connections' = IF chat[s].pc = "fail" THEN disconnect(conns1, s)
                                        ELSE conns1
              /\ sock' = IF chat[s].pc = "fail" THEN [sock1 EXCEPT ![s] = "closed"]
                         ELSE sock1
    /\ chat' = [chat EXCEPT ![s] =
                  IF chat[s].pc = "fail" THEN [NoChat EXCEPT !.pc = "ended"]
                  ELSE IF Len(chat[s].replies) = 1 THEN NoChat
                  ELSE [chat[s] EXCEPT !.replies = Tail(@)]]
    /\ UNCHANGED <<otherVars, boot, pub>>

\* ---------------------------------------------------------------- the server process
\* the clients of /ws/chat: two in the server whose configuration is
\* complete, one in the others
ChatClients(b) ==
    IF b.scenario = "server" /\ b.key = "valid" /\ b.address = "valid"
       /\ b.network = "known" /\ b.rpc = "wss"
    THEN 2 ELSE 1

ServerInit ==
    /\ path = "server"
    /\ boot \in [scenario : {"server", "test"}, key : KeyValues, address : AddressValues,
                 network : NetworkValues, rpc : RpcValues, pc : {"import", "validate"},
                 opened : {0}, client : {"none"}, agent : {"none"}, listener : {"none"},
                 error : {""}, endpoint : {"up"}, call : {""}, callEndpoint : {""},
                 memory : {{}}]
    /\ boot.pc = (IF boot.scenario = "server" THEN "import" ELSE "validate")
    /\ private_key = (boot.key = "valid")
    /\ budget = [events |-> 0, sockets |-> ChatClients(boot), chunks |-> 0, loops |-> 0,
                 regs |-> 0]
    /\ event_handlers = {}
    /\ processedMessages = [id \in Ids |-> FALSE]
    /\ txCount = 0
    /\ pending = 0
    /\ new_entries = [L \in Loops |-> <<>>]
    /\ emitted = 0
    /\ is_listening = FALSE
    /\ loop_pc = [L \in Loops |-> "idle"]
    /\ jobs = <<>>
    /\ active_connections = <<>>
    /\ sock = [s \in Sockets |-> "new"]
    /\ pub = NoPub
    /\ txLog = <<>>
    /\ chat = [s \in Sockets |-> NoChat]

ServerNext ==
    \/ ImportServer
    \/ LifespanStartup
    \/ TestValidate
    \/ TestInitClient
    \/ TestCreateAgent
    \/ ConnectionLost
    \/ EndpointBack
    \/ GetWeb3
    \/ Reconnect
    \/ \E s \in Sockets : boot.pc = "serving" /\ Connect(s)
    \/ \E s \in Sockets : boot.pc = "serving" /\ ClientDisconnect(s)
    \/ \E s \in Sockets : ChatReceive(s)
    \/ \E s \in Sockets : ChatSend(s)

ServerSpec == ServerInit /\ [][ServerNext]_vars

\* ---------------------------------------------------------------- properties
JobIx == 1..Len(jobs)
TxIx == 1..Len(txLog)
TxOf(j) == {k \in TxIx : txLog[k].job = j}
InFlight(j) == jobs[j].pc \notin {"received", "done"}

\* C1: once a markMessageProcessed transaction for an id is confirmed, no
\* further transaction is built for that id and the agent is not invoked
\* again for it.
C1_NoSecondAcknowledgement ==
    /\ \A k \in TxIx : ~txLog[k].afterConfirmed
    /\ \A j \in JobIx : ~jobs[j].agentAfterAck

\* C2: an event whose id has processedMessages[id] = TRUE when it is
\* received is rejected: no agent invocation, no acknowledgement.
C2_RejectAlreadyProcessed ==
    \A j \in JobIx :
        jobs[j].flagAtReceipt =>
            ~jobs[j].agentInvoked /\ jobs[j].ackAttempts = 0 /\ TxOf(j) = {}

\* C3: two jobs of the same id are never in flight together, and a job
\* reaches the acknowledgement step only when every earlier job of its id
\* has returned.
C3_NoConcurrentDuplicate ==
    \A i \in JobIx : \A j \in JobIx :
        (i < j /\ jobs[i].id = jobs[j].id) =>
            /\ ~(InFlight(i) /\ InFlight(j))
            /\ (jobs[j].pc \in {"ack", "notify"} \/ jobs[j].ackAttempts > 0
                   => jobs[i].pc = "done")

\* C4: an event received while an earlier event of the same id is not yet
\* handled to the end is rejected: no agent invocation, no acknowledgement.
C4_RejectAlreadyActive ==
    \A j \in JobIx :
        jobs[j].dupActive =>
            ~jobs[j].agentInvoked /\ jobs[j].ackAttempts = 0 /\ TxOf(j) = {}

\* C5: every job whose content was handed to the agent attempts the
\* acknowledgement exactly once, whether the stream ended or raised.
C5_AckAttemptedExactlyOnce ==
    \A j \in JobIx :
        /\ jobs[j].ackAttempts <= 1
        /\ (jobs[j].agentInvoked /\ jobs[j].pc = "done" => jobs[j].ackAttempts = 1)

\* C6 (as stated): content missing => the agent is not invoked and no
\* acknowledgement transaction is sent for the event.
C6_NoAckOnMissingContent ==
    \A j \in JobIx :
        jobs[j].content = "missing" => ~jobs[j].agentInvoked /\ TxOf(j) = {}

\* C6 (amended): content missing => the agent is not invoked, and the
\* handler goes on to the acknowledgement: it is attempted exactly once when
\* a signing key is configured (never otherwise), and at most one
\* transaction is built for the event.
C6_MissingContentSkipsAgentOnly ==
    \A j \in JobIx :
        jobs[j].content = "missing" =>
            /\ ~jobs[j].agentInvoked
            /\ jobs[j].sent \in {<<>>, <<"processing_complete">>}
            /\ Cardinality(TxOf(j)) <= 1
            /\ (jobs[j].pc \in {"notify", "done"} =>
                    jobs[j].ackAttempts = IF private_key THEN 1 ELSE 0)

C6_Witness ==
    \E j \in JobIx :
        /\ jobs[j].content = "missing"
        /\ jobs[j].pc = "done"
        /\ jobs[j].ackAttempts = 1
        /\ TxOf(j) # {}

\* C7: the nonces of the acknowledgement transactions built by the process
\* are strictly increasing, none is used twice.
C7_NoncesStrictlyIncreasing ==
    \A a \in TxIx : \A b \in TxIx : a < b => txLog[a].nonce < txLog[b].nonce

\* C8: a frame published while the connection table is empty is delivered
\* to nobody, then or later; the publish ends at once, the table stays as it
\* was and the publishing job is not left waiting.
C8_EmptyBroadcastIsNoop ==
    (pub.job # 0 /\ pub.snap = <<>>) =>
        /\ pub.done
        /\ pub.got = {}
        /\ pub.failed = {}
        /\ pub.after = <<>>
        /\ jobs[pub.job].bt = 0
        /\ jobs[pub.job].bi = 0

C8_Witness ==
    /\ pub.job # 0
    /\ pub.snap = <<>>
    /\ jobs[pub.job].pc = "done"
    /\ active_connections # <<>>

\* C9: when the send to exactly one connection fails during a publish (and
\* the transport does not touch the table meanwhile), that connection alone
\* is removed and every other connection of the table receives the frame.
C9_FailedSendIsolated ==
    (pub.done /\ ~pub.mutated /\ Cardinality(pub.failed) = 1) =>
        /\ Range(pub.snap) \ pub.failed \subseteq pub.got
        /\ pub.after = RemoveAll(pub.snap, pub.failed)

\* C10 (as stated): after a reverted acknowledgement the job is not reported
\* to the clients as successful and no further transaction is sent for it.
C10_RevertNotReportedSuccess ==
    \A j \in JobIx :
        jobs[j].ackOutcome = "reverted" =>
            /\ Cardinality(TxOf(j)) = 1
            /\ ~(pub.job = j /\ pub.type = "processing_complete" /\ pub.success)

\* C10 (amended): after a reverted acknowledgement mark_message_processed
\* has returned False: the completion frame carries markedProcessed = false
\* (its success field reports the agent's outcome only), and exactly one
\* transaction was sent for the event.
C10_RevertReportedUnmarked ==
    \A j \in JobIx :
        jobs[j].ackOutcome = "reverted" =>
            /\ ~jobs[j].processed
            /\ jobs[j].ackAttempts = 1
            /\ Cardinality(TxOf(j)) = 1
            /\ (pub.job = j /\ pub.type = "processing_complete" => ~pub.marked)

C10_Witness ==
    \E j \in JobIx :
        /\ jobs[j].ackOutcome = "reverted"
        /\ pub.job = j
        /\ pub.type = "processing_complete"
        /\ pub.done
        /\ jobs[j].pc = "done"

CountOf(s, x) == Cardinality({i \in 1..Len(s) : s[i] = x})

\* the happy path: content found, the stream yields one text chunk and ends,
\* the acknowledgement transaction is confirmed
Happy(j) ==
    /\ jobs[j].content = "found"
    /\ jobs[j].kinds = <<"text">>
    /\ jobs[j].success
    /\ jobs[j].ackOutcome = "confirmed"

\* C11: on the happy path the job has read the content, invoked the agent,
\* sent exactly one acknowledgement transaction (confirmed, the flag is set),
\* publishes exactly one agent-text frame for its id, and is done with no
\* other job of the id in flight.
C11_HappyPath ==
    \A j \in JobIx :
        Happy(j) =>
            /\ jobs[j].agentInvoked
            /\ jobs[j].ackAttempts = 1
            /\ Cardinality(TxOf(j)) = 1
            /\ \A k \in TxOf(j) : txLog[k].status = "confirmed" /\ txLog[k].id = jobs[j].id
            /\ processedMessages[jobs[j].id]
            /\ jobs[j].pc \in {"notify", "done"}
            /\ CountOf(jobs[j].sent, "agent") <= 1
            /\ (jobs[j].pc = "done" =>
                    CountOf(jobs[j].sent, "agent") = 1 /\ ~Publishing(j))
            /\ \A i \in JobIx : (i # j /\ jobs[i].id = jobs[j].id) => ~InFlight(i)

C11_Witness ==
    \E j \in JobIx :
        /\ Happy(j)
        /\ jobs[j].pc = "done"
        /\ CountOf(jobs[j].sent, "agent") = 1
        /\ Cardinality(TxOf(j)) = 1

\* a value the event listener cannot work without is missing
ConfigMissing ==
    \/ boot.key \in {"unset", "placeholder"}
    \/ boot.address \in {"unset", "zero"}
    \/ boot.network = "unknown"

\* C12: when a required configuration value is missing, the server never
\* comes to serve clients with the event listener disabled (start-up fails).
C12_MissingConfigIsFatal ==
    (boot.scenario = "server" /\ ConfigMissing) =>
        ~(boot.pc = "serving" /\ boot.listener = "disabled")

\* C13: no frame received on /ws/chat makes the process write to the chain:
\* no agent run started by a client frame sends a transaction, and no
\* markMessageProcessed transaction exists without a chain event.
C13_NoChainWriteFromClientFrame ==
    /\ \A s \in Sockets : ~chat[s].chainWrite
    /\ (emitted = 0 => txLog = <<>>)

\* the discriminators as the specification lists them
ListedFrameTypes == {"tool_call", "tool_result", "agent_text", "error", "complete"}

\* the discriminators the event handling code writes
EventFrameTypes ==
    IF path = "handler"
    THEN {"message_received", "tool_call", "agent", "tool", "processing_complete"}
    ELSE {"tool_call", "agent", "tool", "error"}

\* C14 (as stated): every frame published while handling an event has a
\* type in {tool_call, tool_result, agent_text, error, complete} and carries
\* the id of the event.
C14_FrameTypesAsListed ==
    /\ \A j \in JobIx : Range(jobs[j].sent) \subseteq ListedFrameTypes
    /\ (pub.job # 0 => pub.type \in ListedFrameTypes /\ pub.id = jobs[pub.job].id)

\* C14 (amended): every frame published while handling an event carries the
\* id of the event and a type in {message_received, tool_call, agent, tool,
\* processing_complete} (MessageEventHandler) or {tool_call, agent, tool,
\* error} (server.handle_message_paid_event).
C14_FrameTypesOfCode ==
    /\ \A j \in JobIx : Range(jobs[j].sent) \subseteq EventFrameTypes
    /\ (pub.job # 0 => pub.type \in EventFrameTypes /\ pub.id = jobs[pub.job].id
                       /\ pub.id \in Ids)

C14_Witness ==
    /\ pub.job # 0
    /\ pub.done
    /\ pub.type = "processing_complete"
    /\ pub.id = jobs[pub.job].id
    /\ Len(jobs[pub.job].sent) = 3

\* C15: once the Web3Client is connected, create_agent(web3_client=client)
\* succeeds, opens no further connection (exactly one exists) and leaves
\* the client connected.
C15_AgentCreationReusesClient ==
    (boot.scenario = "test" /\ boot.client = "connected"
        /\ boot.pc \in {"test_passed", "test_failed"}) =>
            /\ boot.pc = "test_passed"
            /\ boot.agent = "created"
            /\ boot.opened = 1

\* position of a handler step in the order of the handling
Rank(pc) ==
    CASE pc = "received" -> 0
      [] pc = "fetch"    -> 1
      [] pc = "agent"    -> 2
      [] pc = "ack"      -> 3
      [] pc = "notify"   -> 4
      [] pc = "done"     -> 5

\* C16: a job only moves forward (received, content read, agent,
\* acknowledgement, final publish, done): no step lowers its position, the
\* agent is first invoked only after the content was read and before any
\* acknowledgement attempt, and an acknowledgement is attempted only after
\* the agent step is over.
C16_ForwardOnly ==
    [][\A j \in 1..Len(jobs) :
          /\ Len(jobs') >= Len(jobs)
          /\ jobs'[j].id = jobs[j].id
          /\ Rank(jobs'[j].pc) >= Rank(jobs[j].pc)
          /\ (jobs'[j].agentInvoked /\ ~jobs[j].agentInvoked =>
                 jobs[j].content = "found" /\ jobs[j].ackAttempts = 0
                 /\ jobs[j].pc = "agent")
          /\ (jobs'[j].ackAttempts > jobs[j].ackAttempts =>
                 jobs[j].pc = "ack" /\ jobs[j].content # "none"
                 /\ jobs'[j].pc \in {"notify", "done"})
          /\ (jobs'[j].content # jobs[j].content /\ jobs'[j].pc # "done" =>
                 jobs[j].pc = "fetch" /\ jobs[j].content = "none")]_vars

C16_Witness ==
    \E j \in JobIx :
        /\ jobs[j].pc = "done"
        /\ jobs[j].content = "found"
        /\ jobs[j].agentInvoked
        /\ jobs[j].error = "agent"
        /\ jobs[j].ackAttempts = 1

\* the frames the chunks yielded so far call for
RECURSIVE FramesOf(_)
FramesOf(ks) == IF ks = <<>> THEN <<>> ELSE ChunkFrames(Head(ks)) \o FramesOf(Tail(ks))

ChunkFrameTypes == {"tool_call", "agent", "tool"}

ChunkFramesSent(j) == SelectSeq(jobs[j].sent, LAMBDA t : t \in ChunkFrameTypes)

\* C17: agent output is streamed: whenever the agent is asked for its next
\* chunk, and whenever the acknowledgement is attempted, the frames of all
\* chunks yielded so far have already been published, in both wirings.
C17_ChunksPublishedBeforeAck ==
    \A j \in JobIx :
        (\/ jobs[j].pc \in {"agent", "ack"} /\ ~Publishing(j)
         \/ jobs[j].ackAttempts > 0)
            => ChunkFramesSent(j) = FramesOf(jobs[j].kinds)

\* the job ended in failure: content missing, agent error, or the
\* acknowledgement not confirmed
Failed(j) ==
    /\ jobs[j].pc = "done"
    /\ \/ jobs[j].content = "missing"
       \/ jobs[j].error = "agent"
       \/ jobs[j].ackOutcome \in {"reverted", "send_error", "timeout", "build_error"}

\* a frame that reports the failure was published for the job: an error
\* frame, or a completion frame with an error field or markedProcessed false
FailureFramePublished(j) ==
    \/ "error" \in Range(jobs[j].sent)
    \/ /\ "processing_complete" \in Range(jobs[j].sent)
       /\ (jobs[j].error # "" \/ ~jobs[j].processed)

\* C18: a job that ended in failure has published a failure frame for its
\* id (stated for the case that a client is connected).
C18_FailurePublished ==
    \A j \in JobIx :
        (Failed(j) /\ active_connections # <<>>) => FailureFramePublished(j)

\* C19: a job of the MessageEventHandler that went through the
\* acknowledgement step has published exactly one completion frame, as its
\* last frame, also when no signing key is available.
C19_OneFinalCompletionFrame ==
    \A j \in JobIx :
        (path = "handler" /\ jobs[j].pc = "done" /\ jobs[j].content # "none") =>
            /\ CountOf(jobs[j].sent, "processing_complete") = 1
            /\ jobs[j].sent[Len(jobs[j].sent)] = "processing_complete"

\* C20: a send error alone does not fail the acknowledgement: when the
\* acknowledgement of a job is reported failed because of a send error, the
\* send was tried more than once.
C20_SendRetried ==
    \A j \in JobIx :
        jobs[j].ackOutcome = "send_error" =>
            Cardinality({k \in TxOf(j) : txLog[k].status = "send_error"}) > 1

\* C21: a receipt timeout fails the acknowledgement without resubmission: a
\* job builds at most one transaction, and no later transaction is built
\* with the nonce of a transaction that was left pending by a timeout.
C21_TimeoutNonceNotReused ==
    /\ \A j \in JobIx : Cardinality(TxOf(j)) <= 1
    /\ \A k \in TxIx : \A m \in TxIx :
          (k < m /\ txLog[k].status \in {"pending", "replaced"}) =>
              txLog[m].nonce # txLog[k].nonce

\* C22: an error while polling or while creating the event filter never
\* ends the listener: a polling loop returns only after listening was
\* stopped, never because of the error.
C22_ErrorsNeverFatal ==
    \A L \in Loops : loop_pc[L] # "failed"

\* C23: after the provider connection is lost, get_web3() gives a working
\* instance as soon as the endpoint is reachable again: it raises only
\* while the endpoint is down.
C23_TransparentReconnect ==
    boot.call = "RuntimeError" => boot.callEndpoint = "down"

\* C24: after stop_listening() no handler is started any more, not even for
\* the events of the batch that was already fetched: a handler is started
\* only while is_listening is set.
C24_NoJobAfterStop ==
    [][\A j \in JobIx :
          (path = "handler" /\ jobs[j].pc = "received" /\ jobs'[j].pc = "fetch")
              => is_listening]_vars

\* C25: a client that stalls does not hold up the job: while the send to
\* one connection does not complete, the frame has been delivered to (or
\* has failed on) every other registered connection, and the job is not
\* left waiting for that send alone.
WaitsOnStalled(j) == jobs[j].bt # 0 /\ sock[jobs[j].bt] = "stalled"

C25_StalledClientDoesNotBlock ==
    \A j \in JobIx :
        WaitsOnStalled(j) =>
            /\ pub.job = j =>
                  (Range(active_connections) \ {jobs[j].bt}) \subseteq (pub.got \cup pub.failed)
            /\ ENABLED (FetchContent(j) \/ AgentStep(j) \/ MarkProcessed(j) \/ Finish(j)
                            \/ BeginPublish(j) \/ SendComplete(j))

\* C26: a connect or disconnect that interleaves with a publish does not
\* disturb it: every connection that is in the table from the beginning to
\* the end of the publish, and whose send did not fail, has received the
\* frame. (The handler wiring's own removal of a failed connection inside
\* the iteration is left aside here: that is C9.)
C26_TableSynchronizedWithPublish ==
    (pub.job # 0 /\ pub.done /\ (path = "handler" => pub.failed = {})) =>
        \A s \in Range(pub.snap) \cap Range(pub.after) :
            s \notin pub.failed => s \in pub.got

\* C27: jobs are scheduled independently of the polling loop: while a job
\* waits on the agent or on its acknowledgement its loop can go on (poll again, or start the next event of
\* the batch), and an event of another id that is waiting in the batch can
\* be started.
C27_JobsRunConcurrently ==
    \A j \in JobIx :
        jobs[j].pc \in {"agent", "ack"} =>
            /\ ENABLED (Poll(jobs[j].loop) \/ Wake(jobs[j].loop) \/ Dispatch(jobs[j].loop))
            /\ \A k \in JobIx :
                  (jobs[k].pc = "received" /\ jobs[k].id # jobs[j].id)
                      => ENABLED Dispatch(jobs[k].loop)

\* C28: a send failure never reaches the job: a step in which a send
\* returns or raises changes nothing of the job but the progress of the
\* publish, leaves the chain and the polling loop alone, and every job that
\* has returned has gone through the acknowledgement step.
C28_SendFailureNeverEscalates ==
    /\ [](\A j \in JobIx :
            (jobs[j].pc = "done" /\ jobs[j].content # "none") =>
                (jobs[j].ackAttempts = 1 \/ jobs[j].ackOutcome = "no_key"))
    /\ [][\A j \in JobIx :
            (jobs[j].bt # 0 /\ jobs'[j] # jobs[j]) =>
                /\ jobs'[j].pc = jobs[j].pc
                /\ jobs'[j].error = jobs[j].error
                /\ jobs'[j].success = jobs[j].success
                /\ jobs'[j].ackAttempts = jobs[j].ackAttempts
                /\ jobs'[j].ackOutcome = jobs[j].ackOutcome
                /\ jobs'[j].processed = jobs[j].processed
                /\ UNCHANGED <<chainVars, loopVars>>]_vars

C28_Witness ==
    \E j \in JobIx :
        /\ pub.job = j
        /\ pub.type = "message_received"
        /\ pub.failed # {}
        /\ jobs[j].ackAttempts = 1
        /\ jobs[j].ackOutcome = "confirmed"
        /\ jobs[j].error = ""

\* C29: one EventListener never has two polling loops alive, whatever the
\* order of the start_listening() and stop_listening() calls, and so no
\* event is handled twice: there are never more handlers than events.
C29_OnePollingLoop ==
    /\ Cardinality({L \in Loops : Alive(L)}) <= 1
    /\ Len(jobs) <= emitted

\* C30: when every call returns or raises and the event loop is fair, every
\* entry returned by the filter becomes one handler call that reaches its
\* end, and the loop then comes back to its while condition and polls
\* again: again and again every entry returned so far has been handled to
\* the end, again and again the loop is back at its while condition, an
\* entry is handed over once and a handler never starts over.
C30_EveryEventHandledToTheEnd ==
    /\ []<>(\A j \in JobIx : jobs[j].pc = "done")
    /\ []<>(\A L \in Loops : Alive(L) => loop_pc[L] = "poll")
    /\ [][/\ Len(jobs') >= Len(jobs)
          /\ \A j \in JobIx :
                /\ jobs'[j].pc = "received" => jobs[j].pc = "received"
                /\ jobs'[j].pc = "fetch" => jobs[j].pc \in {"received", "fetch"}
          /\ \A L \in Loops :
                new_entries'[L] = <<>> /\ new_entries[L] # <<>> /\ Alive(L) =>
                    Len(jobs') = Len(jobs) + Len(new_entries[L])]_vars

C30_Witness ==
    /\ Len(jobs) = 2
    /\ \A j \in JobIx : jobs[j].pc = "done" /\ jobs[j].loop = 1
    /\ loop_pc[1] = "poll"
    /\ is_listening

\* C31: a failure while decoding or handling one event of a batch stays
\* with that event: an event waits for its handler only while the loop is
\* still going through the batch, an event is handed over only when all the
\* events the filter returned before it have been handled to the end, the
\* step in which an event ends (failed or not) leaves the loop in the batch
\* and the other events as they are, and an event that has ended is not
\* handled again.
C31_FailureContainedToEvent ==
    /\ [](\A j \in JobIx :
            /\ jobs[j].pc = "received" => loop_pc[jobs[j].loop] = "dispatch"
            /\ jobs[j].pc # "received" =>
                   \A i \in Handed(jobs[j].loop, j) : jobs[i].pc = "done")
    /\ [][\A j \in JobIx :
            /\ jobs[j].pc = "done" => jobs'[j].pc = "done"
            /\ (jobs[j].pc # "done" /\ jobs'[j].pc = "done") =>
                   /\ loop_pc'[jobs[j].loop] = "dispatch"
                   /\ \A k \in JobIx \ {j} : jobs'[k].pc = jobs[k].pc]_vars

C31_Witness ==
    /\ Len(jobs) = 2
    /\ jobs[1].loop = jobs[2].loop
    /\ jobs[1].error = "decode"
    /\ jobs[2].pc = "done"
    /\ jobs[2].agentInvoked
    /\ jobs[2].error = ""

\* C36: an event polled while no handler is registered for "MessagePaid"
\* is dropped with no effect: the step that takes it ends it, reads no
\* content, invokes no agent, builds no transaction, publishes no frame and
\* leaves the chain and the connection table alone; an event left without
\* a handler never shows any of these effects. Registering replaces: the
\* registry never holds two handlers and no event is given to two.
C36_UnregisteredEventDropped ==
    /\ [](/\ Cardinality(event_handlers) <= 1
          /\ \A j \in JobIx :
                /\ Cardinality(jobs[j].ran) <= 1
                /\ jobs[j].error \in DropErrors =>
                       /\ jobs[j].pc = "done"
                       /\ jobs[j].ran = {}
                       /\ jobs[j].content = "none"
                       /\ ~jobs[j].agentInvoked
                       /\ jobs[j].ackAttempts = 0
                       /\ jobs[j].sent = <<>>
                       /\ TxOf(j) = {})
    /\ [][\A j \in JobIx :
            (/\ path = "handler"
             /\ event_handlers = {}
             /\ jobs[j].pc = "received"
             /\ jobs'[j].pc # "received") =>
                /\ jobs'[j].error \in DropErrors
                /\ pub'.job # j
                /\ UNCHANGED <<chainVars, active_connections, sock>>]_vars

C36_Witness ==
    /\ Len(jobs) = 2
    /\ jobs[1].error = "no_handler"
    /\ budget.regs = 0
    /\ event_handlers = {2}
    /\ jobs[2].ran = {2}
    /\ jobs[2].agentInvoked
    /\ jobs[2].pc = "done"

\* how far a polling loop is from its next look at the while condition
LoopRank(pc) ==
    CASE pc = "dispatch" -> 0
      [] pc = "sleep" -> 1
      [] pc = "poll" -> 2
      [] OTHER -> 3

\* C37: after stop_listening() and without a later start_listening() the
\* polling loop terminates: when the flag is down, eventually it is up again
\* or no loop is alive. While the flag stays down a loop only goes forward
\* through the batch in progress, one sleep and the while condition, where
\* it returns without polling; when no loop is alive the flag is down.
C37_StoppedLoopTerminates ==
    /\ (path = "handler" /\ ~is_listening) ~> (is_listening \/ \A L \in Loops : ~Alive(L))
    /\ [](path = "handler" /\ (\A L \in Loops : ~Alive(L)) => ~is_listening)
    /\ [][(path = "handler" /\ ~is_listening /\ ~is_listening') =>
            \A L \in Loops :
                /\ LoopRank(loop_pc'[L]) >= LoopRank(loop_pc[L])
                /\ (loop_pc[L] = "poll" /\ loop_pc'[L] # "poll") =>
                       /\ loop_pc'[L] = "exited"
                       /\ jobs' = jobs
                       /\ new_entries' = new_entries]_vars

C37_Witness ==
    /\ path = "handler"
    /\ ~is_listening
    /\ loop_pc[1] = "exited"
    /\ Len(jobs) = 2
    /\ \A j \in JobIx : jobs[j].pc = "done"
    /\ txCount > 0

\* C35: in the processing_complete frame of an event, success is true only
\* if the content was found and the agent stream ended without raising,
\* the frame has an error field exactly when success is false, and
\* markedProcessed is true exactly when the acknowledgement transaction
\* was confirmed with status 1.
C35_CompletionFrameFields ==
    \A j \in JobIx :
        (pub.job = j /\ pub.type = "processing_complete" /\ jobs[j].pc = "notify") =>
            /\ pub.success => (jobs[j].content = "found" /\ jobs[j].agentInvoked)
            /\ HasErrorField(pub) <=> ~pub.success
            /\ pub.marked <=> jobs[j].ackOutcome = "confirmed"

\* the sockets the server holds as live: connected, not disconnected, no
\* send to them has failed
LiveSockets == {s \in Sockets : sock[s] \in {"open", "stalled"}}

\* the sockets whose send failed in a broadcast() that is still going
\* through the table
FailedInBroadcast ==
    IF path = "server"
    THEN {s \in Sockets : \E j \in JobIx : jobs[j].bt # 0 /\ s \in jobs[j].bfailed}
    ELSE {}

NoDuplicates(conns) == Cardinality(Range(conns)) = Len(conns)

\* C34 as stated: the connection table holds exactly the sockets that were
\* connected and have neither been disconnected nor failed a send, no
\* socket twice.
C34_TableExactlyLiveSockets ==
    /\ NoDuplicates(active_connections)
    /\ Range(active_connections) = LiveSockets

\* C34 amended: the connection table holds every socket that was connected
\* and has neither been disconnected nor failed a send, no socket twice, and
\* besides them only the sockets whose send failed in a broadcast() that
\* has not yet gone through the rest of the table; disconnecting a socket
\* that is not in the table changes nothing, as in the second disconnect of
\* a socket that was dropped after a failed send.
C34_TableLiveButForBroadcast ==
    /\ [](/\ NoDuplicates(active_connections)
          /\ LiveSockets \subseteq Range(active_connections)
          /\ Range(active_connections) \subseteq LiveSockets \cup FailedInBroadcast
          /\ \A s \in Sockets \ Range(active_connections) :
                disconnect(active_connections, s) = active_connections)
    /\ [][\A s \in Sockets :
            (sock[s] = "dropped" /\ sock'[s] = "closed" /\ s \notin Range(active_connections)) =>
                active_connections' = active_connections]_vars

C34_Witness ==
    \E s, t \in Sockets :
        /\ sock[s] = "closed"
        /\ sock[t] = "dropped"
        /\ t \notin Range(active_connections)
        /\ active_connections = <<>>
        /\ pub.failed = {t}

\* the frame is a message that carries the signature of its address
SignedByAddress(f) == f.json /\ f.message # "" /\ f.signature = "good" /\ f.address # ""

\* C32: on /ws/chat the agent is invoked only for a non-empty message whose
\* signature verifies against the supplied address. Receiving an empty
\* message queues no frame and invokes nothing; receiving a message with a
\* missing or invalid signature queues exactly one error frame for that
\* client, invokes no agent, adds nothing to the agent's memory and leaves
\* the connection table as it is; sending a frame that arrives leaves the
\* table as it is.
C32_AgentOnlyForVerifiedMessage ==
    /\ [](\A s \in Sockets : chat[s].agentRan => SignedByAddress(chat[s].last))
    /\ [][\A s \in Sockets :
            /\ (chat[s].pc = "recv" /\ chat'[s] # chat[s] /\ chat'[s].last.json) =>
                   LET f == chat'[s].last IN
                   /\ active_connections' = active_connections
                   /\ f.message = "" =>
                          /\ chat'[s].pc = "recv"
                          /\ chat'[s].replies = <<>>
                          /\ ~chat'[s].agentRan
                          /\ boot' = boot
                   /\ (f.message # "" /\ ~SignedByAddress(f)) =>
                          /\ chat'[s].pc = "reply"
                          /\ chat'[s].replies = <<"error">>
                          /\ ~chat'[s].agentRan
                          /\ boot' = boot
            /\ (chat[s].pc = "reply" /\ chat'[s] # chat[s] /\ sock'[s] = "open") =>
                   active_connections' = active_connections]_vars

C32_Witness ==
    /\ chat[1].agentRan
    /\ chat[1].pc = "reply"
    /\ chat[2].last.message = "text"
    /\ chat[2].last.signature = "bad"
    /\ chat[2].last.address = "addr"
    /\ chat[2].replies = <<"error">>
    /\ Range(active_connections) = {1, 2}

\* C33: the frames produced for one client's chat message go to that
\* client's connection only (the step that sends one changes nothing of
\* another connection), and what a client receives does not depend on the
\* chat messages of other clients: the agent that produced its replies had
\* no other client's message in its conversation state.
C33_ChatIsolated ==
    /\ [](\A s \in Sockets : chat[s].deps \subseteq {s})
    /\ [][\A s \in Sockets :
            (chat[s].pc \in {"reply", "fail"} /\ chat'[s] # chat[s]) =>
                \A t \in Sockets \ {s} : chat'[t] = chat[t] /\ sock'[t] = sock[t]]_vars

====
